---------------------------- MODULE Spec2Model ----------------------------
(***************************************************************************)
(* Model of network_stability_check.py: the four probes (dns_resolution_   *)
(* test, ping_test, port_check, latency_test), run_command, and the driver *)
(* main with its summary table and its thread pool for the latency phase.  *)
(*                                                                         *)
(* Three specifications share the variables:                               *)
(*   Spec       the driver main, probes applied as operators;              *)
(*   SpecPing   ping_test / run_command applied to one environment answer; *)
(*   SpecProbe  one port_check or latency_test call, statement by          *)
(*              statement, with the sockets it opens.                      *)
(***************************************************************************)
EXTENDS Integers, Sequences, FiniteSets, TLC

(* ------------------------------ bounds --------------------------------- *)
\* largest number of auxiliary hosts (-dc arguments) of a run
MaxDcs == 2
\* largest `count` argument of a latency_test call in SpecProbe
MaxCount == 3
\* largest reading of time.time(), in seconds, in SpecProbe
MaxClock == 2

(* -------------------------- program constants -------------------------- *)
\* ping_test(host, count=5)
PingDefaultCount == 5
\* latency_test(host, count=10)
LatencyDefaultCount == 10
\* ThreadPoolExecutor(max_workers=5)
max_workers == 5
\* ports_to_check = [53, 88, 389, 445, 636]
ports_to_check == <<53, 88, 389, 445, 636>>
\* the keys of the summary dict, in insertion order
CategoryOrder == <<"dns_resolution", "ping", "port_checks", "latency">>
Categories == {CategoryOrder[k] : k \in 1..Len(CategoryOrder)}
\* An optional sample is a sequence: <<>> is None, <<x>> is the value x.
None == <<>>
Some(x) == <<x>>

VARIABLES
    \* ---- driver (main) ----
    n,            \* len(dcs): number of auxiliary hosts
    pc,           \* position of main
    i,            \* index of the current target / summary category
    j,            \* index of the current port in ports_to_check
    summary,      \* the summary dict
    calls,        \* per category, number of probe calls begun (tasks submitted)
    future,       \* per target, the state of its latency future
    collected,    \* targets whose future as_completed has already yielded
    printed,      \* the summary entries printed so far
    error,        \* exception that left main, or "none"
    exitStatus,   \* None while main runs, then Some(0) or Some(1)
    \* ---- ping_test ----
    pingIn,       \* the call's arguments and the environment's answer
    pingOut,      \* the returned (message, success)
    \* ---- one port_check / latency_test call ----
    op,           \* the probe called: "port_check" or "latency_test"
    opc,          \* position of the call
    count,        \* latency_test's count argument
    attempt,      \* attempts of the loop already made
    latencies,    \* the sample set
    start_time,   \* the reading of time.time() before the last attempt
    openSockets,  \* sockets the call has opened that are not closed yet
    connected,    \* the elapsed times of the attempts that connected (history)
    result        \* the returned (message, success)

drvVars   == <<n, pc, i, j, summary, calls, future, collected, printed,
               error, exitStatus>>
pingVars  == <<pingIn, pingOut>>
probeVars == <<op, opc, count, attempt, latencies, start_time, openSockets,
               connected, result>>
vars      == <<drvVars, pingVars, probeVars>>

(* ----------------------------- characters ------------------------------ *)
\* Python strings are sequences of one-character strings.
c_Error == <<"E","r","r","o","r">>
c_ErrorColon == c_Error \o <<":"," ">>
c_packets_transmitted ==
    <<"p","a","c","k","e","t","s"," ","t","r","a","n","s","m","i","t","t","e","d">>
c_pct_packet_loss ==
    <<"%"," ","p","a","c","k","e","t"," ","l","o","s","s">>
c_0pct_packet_loss == <<"0">> \o c_pct_packet_loss
c_received == <<" ","r","e","c","e","i","v","e","d">>
c_PING == <<"P","I","N","G"," ">>
c_NL == "\n"
Digits == <<"0","1","2","3","4","5","6","7","8","9">>

\* str(x) of a natural number
RECURSIVE str(_)
str(x) == IF x < 10 THEN <<Digits[x + 1]>>
          ELSE str(x \div 10) \o <<Digits[(x % 10) + 1]>>

\* needle in hay (Python's substring test)
Contains(hay, needle) ==
    \E s \in 0..(Len(hay) - Len(needle)) :
        \A p \in 1..Len(needle) : hay[s + p] = needle[p]

\* hay.splitlines(), for text whose only line break is "\n"
RECURSIVE splitlines(_)
splitlines(text) ==
    IF text = <<>> THEN <<>>
    ELSE LET brk == {p \in 1..Len(text) : text[p] = c_NL} IN
         IF brk = {} THEN <<text>>
         ELSE LET p == CHOOSE q \in brk : \A r \in brk : q <= r IN
              <<SubSeq(text, 1, p - 1)>>
                  \o splitlines(SubSeq(text, p + 1, Len(text)))

(* ------------------------------- probes -------------------------------- *)
\* A probe result: the pair (message, success), or an exception that leaves
\* the probe (raised = TRUE); the message is kept as its kind.
Returned(msg, success) == [raised |-> FALSE, msg |-> msg, success |-> success]
Raised(exc) == [raised |-> TRUE, msg |-> exc, success |-> FALSE]

\* What socket.gethostbyname_ex can do: return the addresses, raise
\* socket.gaierror, or raise another exception (UnicodeError for a label
\* longer than 63 characters or an empty label, socket.herror).
DnsEnv == {"resolved", "gaierror", "UnicodeError"}

\* except socket.gaierror: no other exception is caught
dns_resolution_test(env) ==
    CASE env = "resolved" -> Returned("DNS resolution for", TRUE)
      [] env = "gaierror" -> Returned("DNS resolution failed for", FALSE)
      [] OTHER            -> Raised(env)

\* What socket.create_connection can do.
ConnectEnv == {"connected", "timeout", "ConnectionRefusedError", "gaierror"}

port_check(env) ==
    CASE env = "connected" -> Returned("is open on", TRUE)
      [] env \in {"timeout", "ConnectionRefusedError"}
                           -> Returned("is closed on", FALSE)
      [] OTHER             -> Returned("Error checking port", FALSE)

(* ------------------------ run_command, ping_test ----------------------- *)
\* Host names: the second contains the text "Error".
h_dc1 == <<"d","c","1">>
h_ErrorLog == <<"E","r","r","o","r","L","o","g">>
PingHosts == {h_dc1, h_ErrorLog}
\* the `count` arguments tried in SpecPing; main always passes the default
PingCounts == {4, PingDefaultCount, 10, 20}

\* the percentage ping prints: whole for the counts above
LossPct(cnt, received) == ((cnt - received) * 100) \div cnt

\* ping's summary line
SummaryLine(cnt, received) ==
    str(cnt) \o <<" ">> \o c_packets_transmitted \o <<",", " ">>
        \o str(received) \o c_received \o <<",", " ">>
        \o str(LossPct(cnt, received)) \o c_pct_packet_loss

\* ping's standard output: the header naming the host, then the summary
PingStdout(host, cnt, received, hasSummary) ==
    c_PING \o host \o <<c_NL>>
        \o (IF hasSummary THEN SummaryLine(cnt, received) \o <<c_NL>> ELSE <<>>)

s_unknown_host == <<"u","n","k","n","o","w","n"," ","h","o","s","t">>
s_ENOENT == <<"N","o"," ","s","u","c","h"," ","f","i","l","e">>

\* What running ping can do: Popen raises (no ping executable); ping exits 2
\* with a message on stderr; ping exits 1 having received no reply; ping
\* exits 0 having received at least one reply; ping exits 0 with output
\* that holds no summary line.
PingEnv(host, cnt) ==
    {[kind |-> "raise", returncode |-> -1, received |-> 0, hasSummary |-> FALSE,
      stdout |-> <<>>, stderr |-> s_ENOENT]}
    \cup
    {[kind |-> "exit", returncode |-> 2, received |-> 0, hasSummary |-> FALSE,
      stdout |-> <<>>, stderr |-> s_unknown_host]}
    \cup
    {[kind |-> "exit", returncode |-> 1, received |-> 0, hasSummary |-> TRUE,
      stdout |-> PingStdout(host, cnt, 0, TRUE), stderr |-> <<>>]}
    \cup
    {[kind |-> "exit", returncode |-> 0, received |-> r, hasSummary |-> TRUE,
      stdout |-> PingStdout(host, cnt, r, TRUE), stderr |-> <<>>]
        : r \in 1..cnt}
    \cup
    {[kind |-> "exit", returncode |-> 0, received |-> cnt, hasSummary |-> FALSE,
      stdout |-> PingStdout(host, cnt, cnt, FALSE), stderr |-> <<>>]}

run_command(env) ==
    IF env.kind = "raise" THEN c_ErrorColon \o env.stderr
    ELSE IF env.returncode # 0 THEN c_ErrorColon \o env.stderr
    ELSE env.stdout

\* the first line of the output that holds "packets transmitted", or <<>>
FirstSummaryLine(lines) ==
    LET hits == {p \in 1..Len(lines) : Contains(lines[p], c_packets_transmitted)}
    IN  IF hits = {} THEN <<>>
        ELSE lines[CHOOSE p \in hits : \A q \in hits : p <= q]

\* "0% packet loss" in line
ReportsNoLoss(line) == Contains(line, c_0pct_packet_loss)

ping_test(env) ==
    LET output == run_command(env) IN
    IF Contains(output, c_Error) THEN Returned("Ping failed", FALSE)
    ELSE LET line == FirstSummaryLine(splitlines(output)) IN
         IF line # <<>> THEN Returned("Ping results for", ReportsNoLoss(line))
         ELSE Returned("Unexpected ping output for", FALSE)

(* ---------------------------- latency_test ----------------------------- *)
\* valid_latencies = [l for l in latencies if l is not None]
valid_latencies(ls) ==
    LET kept == SelectSeq(ls, LAMBDA l : l # None)
    IN  [p \in 1..Len(kept) |-> kept[p][1]]

RECURSIVE SeqSum(_)
SeqSum(s) == IF s = <<>> THEN 0 ELSE Head(s) + SeqSum(Tail(s))
SeqMin(s) == CHOOSE x \in {s[p] : p \in 1..Len(s)} :
                 \A q \in 1..Len(s) : x <= s[q]
SeqMax(s) == CHOOSE x \in {s[p] : p \in 1..Len(s)} :
                 \A q \in 1..Len(s) : x >= s[q]

\* num/den rounded to the nearest integer, ties to even (den > 0)
RoundHalfEven(num, den) ==
    LET q == num \div den
        r == num % den
    IN  IF 2 * r < den THEN q
        ELSE IF 2 * r > den THEN q + 1
        ELSE IF q % 2 = 0 THEN q ELSE q + 1

\* f"{num/den:.2f}": the value in hundredths
Fmt2(num, den) == RoundHalfEven(100 * num, den)

\* lines 85-96: the aggregation over the sample set, values in milliseconds,
\* the three aggregates as formatted (hundredths of a millisecond)
aggregate(ls) ==
    LET valid == valid_latencies(ls) IN
    IF valid # <<>>
    THEN [raised |-> FALSE, msg |-> "Latency to", success |-> TRUE,
          avg |-> Fmt2(SeqSum(valid), Len(valid)),
          min |-> Fmt2(SeqMin(valid), 1),
          max |-> Fmt2(SeqMax(valid), 1)]
    ELSE [raised |-> FALSE, msg |-> "All latency tests failed", success |-> FALSE]

\* latency = (time.time() - start_time) * 1000
elapsed_ms(t0, t1) == (t1 - t0) * 1000

\* lines 77-82: the slot one attempt appends
sample(env, t0, t1) ==
    IF env = "connected" THEN Some(elapsed_ms(t0, t1)) ELSE None

\* What one latency task of the pool can do, as main sees it: run its
\* `count` attempts, `connecting` of them connecting (1 s each), or end with
\* an exception raised outside the try block of the loop (MemoryError).
TaskEnv == [connecting : {0, 1, LatencyDefaultCount}, exc : {"none", "MemoryError"}]

\* latency_test(host) as a task of the pool
latency_test(env) ==
    IF env.exc # "none" THEN Raised(env.exc)
    ELSE aggregate([s \in 1..LatencyDefaultCount |->
                       sample(IF s <= env.connecting THEN "connected" ELSE "timeout",
                              0, 1)])

(* ----------------------------- main: state ----------------------------- *)
NoResult == [raised |-> FALSE, msg |-> "none", success |-> FALSE]

\* [domain] + dcs: target 0 is the domain, targets 1..n the auxiliary hosts
Targets == 0..n

\* summary = {...}: every counter 0
summary0 == [c \in Categories |-> [success |-> 0, fail |-> 0]]

\* mutant: the counter is set to 1 instead of incremented
Tally_assign(s, cat, success) ==
    IF success THEN [s EXCEPT ![cat].success = 1]
    ELSE [s EXCEPT ![cat].fail = 1]

\* summary[cat]["success" if success else "fail"] += 1
Tally(s, cat, success) ==
    IF success THEN [s EXCEPT ![cat].success = @ + 1]
    ELSE [s EXCEPT ![cat].fail = @ + 1]

\* mutant: the exception is caught and nothing is tallied
TallyException_none(s) == s

\* except Exception as exc: summary["latency"]["fail"] += 1
TallyException(s) == [s EXCEPT !["latency"].fail = @ + 1]

Total(s, cat) == s[cat].success + s[cat].fail

\* the end of `for dc in dcs` (and of [domain] + dcs): t was the last target
LastTarget(t) == t = n

\* the end of `for port in ports_to_check`
LastPort(p) == p = Len(ports_to_check)

\* mutant: the collection loop ends after the first future
AnyCollected(c) == c # {}

\* as_completed is exhausted once it has yielded every submitted future
AllCollected(c) == c = Targets

\* results['success'] / (results['success'] + results['fail']) * 100,
\* formatted :.2f, in hundredths of a percent
Rate(results) ==
    Fmt2(results.success * 100, results.success + results.fail)

Running == {t \in 0..MaxDcs : future[t] = "running"}
Finished == {"finished_True", "finished_False", "finished_exception"}

drvIdle ==
    /\ n = 0 /\ pc = "idle" /\ i = 0 /\ j = 1
    /\ summary = summary0
    /\ calls = [c \in Categories |-> 0]
    /\ future = [t \in 0..MaxDcs |-> "unsubmitted"]
    /\ collected = {}
    /\ printed = <<>>
    /\ error = "none"
    /\ exitStatus = None

pingIdle ==
    /\ pingIn = [host |-> <<>>, count |-> 0, env |-> [kind |-> "none"]]
    /\ pingOut = NoResult

probeIdle ==
    /\ op = "none" /\ opc = "idle" /\ count = 0 /\ attempt = 0
    /\ latencies = <<>> /\ start_time = 0
    /\ openSockets = 0 /\ connected = <<>> /\ result = NoResult

(* ---------------------------- main: actions ---------------------------- *)
\* lines 104-115: the arguments are parsed, the summary is all zeros
Init ==
    /\ n \in 0..MaxDcs
    /\ pc = "dns" /\ i = 0 /\ j = 1
    /\ summary = summary0
    /\ calls = [c \in Categories |-> 0]
    /\ future = [t \in 0..MaxDcs |-> "unsubmitted"]
    /\ collected = {}
    /\ printed = <<>>
    /\ error = "none"
    /\ exitStatus = None
    /\ pingIdle
    /\ probeIdle

\* an exception leaves main: the traceback is printed, the exit status is 1
Abort(exc) ==
    /\ pc' = "aborted"
    /\ error' = exc
    /\ exitStatus' = Some(1)

\* lines 117-125: one dns_resolution_test call, printed and tallied
DnsProbe ==
    /\ pc = "dns"
    /\ \E env \in DnsEnv :
         LET r == dns_resolution_test(env) IN
         /\ calls' = [calls EXCEPT !["dns_resolution"] = @ + 1]
         /\ IF r.raised
            THEN /\ Abort(r.msg)
                 /\ UNCHANGED <<i, summary>>
            ELSE /\ summary' = Tally(summary, "dns_resolution", r.success)
                 /\ i' = IF LastTarget(i) THEN 0 ELSE i + 1
                 /\ pc' = IF LastTarget(i) THEN "ping" ELSE "dns"
                 /\ UNCHANGED <<error, exitStatus>>
    /\ UNCHANGED <<n, j, future, collected, printed, pingVars, probeVars>>

\* lines 127-135: one ping_test call, printed and tallied
PingProbe ==
    /\ pc = "ping"
    /\ \E env \in PingEnv(h_dc1, PingDefaultCount) :
         LET r == ping_test(env) IN
         /\ calls' = [calls EXCEPT !["ping"] = @ + 1]
         /\ summary' = Tally(summary, "ping", r.success)
    /\ i' = IF LastTarget(i) THEN (IF n = 0 THEN 0 ELSE 1) ELSE i + 1
    /\ j' = 1
    /\ pc' = IF ~LastTarget(i) THEN "ping"
             ELSE IF n = 0 THEN "submit" ELSE "port"
    /\ UNCHANGED <<n, future, collected, printed, error, exitStatus,
                   pingVars, probeVars>>

\* lines 137-144: one port_check call of the nested loops
PortProbe ==
    /\ pc = "port"
    /\ \E env \in ConnectEnv :
         LET r == port_check(env) IN
         /\ calls' = [calls EXCEPT !["port_checks"] = @ + 1]
         /\ summary' = Tally(summary, "port_checks", r.success)
    /\ j' = IF LastPort(j) THEN 1 ELSE j + 1
    /\ i' = IF ~LastPort(j) THEN i
            ELSE IF LastTarget(i) THEN 0 ELSE i + 1
    /\ pc' = IF LastPort(j) /\ LastTarget(i) THEN "submit" ELSE "port"
    /\ UNCHANGED <<n, future, collected, printed, error, exitStatus,
                   pingVars, probeVars>>

\* line 149: executor.submit(latency_test, host) for the next target
Submit ==
    /\ pc = "submit"
    /\ future' = [future EXCEPT ![i] = "pending"]
    /\ calls' = [calls EXCEPT !["latency"] = @ + 1]
    /\ i' = IF LastTarget(i) THEN 0 ELSE i + 1
    /\ pc' = IF LastTarget(i) THEN "collect" ELSE "submit"
    /\ UNCHANGED <<n, j, summary, collected, printed, error, exitStatus,
                   pingVars, probeVars>>

\* a free worker of the pool takes a pending task
WorkerStart(t) ==
    /\ future[t] = "pending"
    /\ Cardinality(Running) < max_workers
    /\ future' = [future EXCEPT ![t] = "running"]
    /\ UNCHANGED <<n, pc, i, j, summary, calls, collected, printed, error,
                   exitStatus, pingVars, probeVars>>

\* the task's latency_test call ends: the future holds its result or
\* its exception
WorkerFinish(t) ==
    /\ future[t] = "running"
    /\ \E env \in TaskEnv :
         LET r == latency_test(env) IN
         future' = [future EXCEPT ![t] =
                       IF r.raised THEN "finished_exception"
                       ELSE IF r.success THEN "finished_True"
                       ELSE "finished_False"]
    /\ UNCHANGED <<n, pc, i, j, summary, calls, collected, printed, error,
                   exitStatus, pingVars, probeVars>>

\* lines 150-158: as_completed yields a finished future; its result, or the
\* exception future.result() raises, is tallied
Collect(t) ==
    /\ pc = "collect"
    /\ t \notin collected
    /\ future[t] \in Finished
    /\ summary' = IF future[t] = "finished_exception"
                  THEN TallyException(summary)
                  ELSE Tally(summary, "latency", future[t] = "finished_True")
    /\ collected' = collected \cup {t}
    /\ pc' = IF AllCollected(collected') THEN "summary" ELSE "collect"
    /\ i' = IF AllCollected(collected') THEN 1 ELSE i
    /\ UNCHANGED <<n, j, calls, future, printed, error, exitStatus,
                   pingVars, probeVars>>

\* lines 162-169: one entry of the summary; after the last, the completion
\* line, and main returns
SummaryEntry ==
    /\ pc = "summary"
    /\ LET test == CategoryOrder[i]
           results == summary[test]
       IN  IF results.success + results.fail = 0
           THEN /\ Abort("ZeroDivisionError")
                /\ UNCHANGED <<i, printed>>
           ELSE /\ printed' = Append(printed,
                        [test |-> test, success |-> results.success,
                         fail |-> results.fail, rate |-> Rate(results)])
                /\ i' = IF i = Len(CategoryOrder) THEN i ELSE i + 1
                /\ pc' = IF i = Len(CategoryOrder) THEN "done" ELSE "summary"
                /\ exitStatus' = IF i = Len(CategoryOrder) THEN Some(0) ELSE exitStatus
                /\ error' = error
    /\ UNCHANGED <<n, j, summary, calls, future, collected, pingVars, probeVars>>

Next ==
    \/ DnsProbe
    \/ PingProbe
    \/ PortProbe
    \/ Submit
    \/ \E t \in 0..MaxDcs : WorkerStart(t)
    \/ \E t \in 0..MaxDcs : WorkerFinish(t)
    \/ \E t \in 0..MaxDcs : Collect(t)
    \/ SummaryEntry

Spec == Init /\ [][Next]_vars

(* ------------------------- SpecPing: ping_test ------------------------- *)
InitPing ==
    /\ drvIdle
    /\ probeIdle
    /\ \E h \in PingHosts, c \in PingCounts :
         \E e \in PingEnv(h, c) :
             pingIn = [host |-> h, count |-> c, env |-> e]
    /\ pingOut = NoResult

\* lines 27-42: ping_test(host, count)
PingCall ==
    /\ pingOut.msg = "none"
    /\ pingOut' = ping_test(pingIn.env)
    /\ UNCHANGED <<pingIn, drvVars, probeVars>>

NextPing == PingCall

SpecPing == InitPing /\ [][NextPing]_vars

(* -------------- SpecProbe: one port_check or latency_test -------------- *)
\* readings of time.time(), in seconds. time.time() is the wall clock: a
\* later reading is lower than an earlier one when the clock was set back.
Clock == 0..MaxClock

\* `for _ in range(count)` has run out
LoopDone(a, c) == a >= c

\* mutant: a failed attempt appends nothing
append_connected_only(ls, env, t0, t1) ==
    IF env = "connected" THEN Append(ls, sample(env, t0, t1)) ELSE ls

\* latencies.append(latency) / latencies.append(None)
append_sample(ls, env, t0, t1) == Append(ls, sample(env, t0, t1))

\* What becomes of the socket object line 78 creates and never binds nor
\* closes: its finalizer closes it, at once (reference counting) or at some
\* later collection.
Finalizer == {"at_once", "later"}

InitProbe ==
    /\ drvIdle
    /\ pingIdle
    /\ op \in {"port_check", "latency_test"}
    /\ count \in (IF op = "latency_test" THEN 0..MaxCount ELSE {0})
    /\ opc = IF op = "port_check" THEN "connect"
             ELSE IF LoopDone(0, count) THEN "aggregate" ELSE "loop"
    /\ attempt = 0
    /\ latencies = <<>>
    /\ start_time = 0
    /\ openSockets = 0
    /\ connected = <<>>
    /\ result = NoResult

\* lines 58-59, 63-70: socket.create_connection inside the `with` statement
PcConnect ==
    /\ op = "port_check" /\ opc = "connect"
    /\ \E env \in ConnectEnv :
         IF env = "connected"
         THEN /\ openSockets' = openSockets + 1
              /\ opc' = "with_body"
              /\ UNCHANGED result
         ELSE /\ result' = port_check(env)
              /\ opc' = "returned"
              /\ UNCHANGED openSockets
    /\ UNCHANGED <<count, attempt, latencies, start_time, connected, op,
                   drvVars, pingVars>>

\* lines 60-62: the body returns; the `with` statement closes the socket
PcWithExit ==
    /\ op = "port_check" /\ opc = "with_body"
    /\ result' = port_check("connected")
    /\ openSockets' = openSockets - 1
    /\ opc' = "returned"
    /\ UNCHANGED <<count, attempt, latencies, start_time, connected, op,
                   drvVars, pingVars>>

\* lines 75-83: one pass of the loop
LtAttempt ==
    /\ op = "latency_test" /\ opc = "loop"
    /\ \E t0 \in Clock, t1 \in Clock, env \in ConnectEnv, fin \in Finalizer :
         /\ start_time' = t0
         /\ latencies' = append_sample(latencies, env, t0, t1)
         /\ connected' = IF env = "connected"
                         THEN Append(connected, elapsed_ms(t0, t1))
                         ELSE connected
         /\ openSockets' = IF env = "connected" /\ fin = "later"
                           THEN openSockets + 1 ELSE openSockets
    /\ attempt' = attempt + 1
    /\ opc' = IF LoopDone(attempt + 1, count) THEN "aggregate" ELSE "loop"
    /\ UNCHANGED <<count, result, op, drvVars, pingVars>>

\* lines 85-96
LtAggregate ==
    /\ op = "latency_test" /\ opc = "aggregate"
    /\ result' = aggregate(latencies)
    /\ opc' = "returned"
    /\ UNCHANGED <<count, attempt, latencies, start_time, openSockets,
                   connected, op, drvVars, pingVars>>

\* the interpreter collects an unreferenced socket object: its finalizer
\* closes the socket
Finalize ==
    /\ op = "latency_test"
    /\ openSockets > 0
    /\ openSockets' = openSockets - 1
    /\ UNCHANGED <<count, attempt, latencies, start_time, connected, op, opc,
                   result, drvVars, pingVars>>

NextProbe ==
    \/ PcConnect
    \/ PcWithExit
    \/ LtAttempt
    \/ LtAggregate
    \/ Finalize

SpecProbe == InitProbe /\ [][NextProbe]_vars

(* ------------------------------- claims -------------------------------- *)
\* main has reached the summary step (it may have ended there)
AtSummary == pc \in {"summary", "done"} \/ error = "ZeroDivisionError"

PrintedTests == [p \in 1..Len(printed) |-> printed[p].test]

\* C1: in a run with no auxiliary hosts the port_checks counters stay (0, 0)
\* and the summary's rate computation for that category raises no division
\* error: the entry is printed with a rate of 0 and main goes on.
C1_ZeroTotalGuarded ==
    n = 0 =>
        /\ summary["port_checks"] = [success |-> 0, fail |-> 0]
        /\ error # "ZeroDivisionError"
        /\ pc = "done" =>
               \E p \in 1..Len(printed) :
                   printed[p].test = "port_checks" /\ printed[p].rate = 0

\* C2: for every configuration and every combination of probe outcomes the
\* run reaches its end: no state aborts it, it can always take a further
\* step until it is done, and when done it has printed the entry of all four
\* categories in order and exits with status 0.
C2_RunCompletes ==
    /\ pc # "aborted"
    /\ exitStatus # Some(1)
    /\ pc = "done" \/ ENABLED Next
    /\ pc = "done" => exitStatus = Some(0) /\ PrintedTests = CategoryOrder

\* C3: ping_test returns success = true iff the ping invocation exited with
\* status zero and its summary line reports exactly 0% packet loss; every
\* other loss percentage, a missing summary line, a nonzero exit and a
\* failed invocation give success = false.
C3_SuccessIffZeroLoss ==
    pingOut.msg # "none" =>
        (pingOut.success <=>
            /\ pingIn.env.kind = "exit"
            /\ pingIn.env.returncode = 0
            /\ pingIn.env.hasSummary
            /\ LossPct(pingIn.count, pingIn.env.received) = 0)

\* C4: no exception escapes a probe into the driver: whatever error is
\* raised inside a probe, the probe returns (message, success = false), so
\* the DNS, ping and port phases are never interrupted by a probe exception.
C4_NoProbeException ==
    /\ error \in {"none", "ZeroDivisionError"}
    /\ pc = "aborted" => AtSummary

\* C5: every socket a probe call opens is released before the call returns:
\* once a port_check or latency_test call has returned, none of the sockets
\* it opened is still open.
C5_SocketsReleased == opc = "returned" => openSockets = 0

\* C6: in the latency phase a task that raised is caught where its result
\* is collected and tallied as exactly one latency failure; every other
\* task is still collected and tallied once with its own result; the
\* exception neither leaves main nor stops the phase, which can always go on
\* until every target is collected.
C6_TaskExceptionTallied ==
    /\ summary["latency"].fail =
           Cardinality({t \in collected :
                           future[t] \in {"finished_exception", "finished_False"}})
    /\ summary["latency"].success =
           Cardinality({t \in collected : future[t] = "finished_True"})
    /\ error # "MemoryError"
    /\ pc \in {"submit", "collect"} => ENABLED Next
    /\ AtSummary => collected = Targets

\* C6 witness: the summary is reached after one task raised and another
\* returned a successful result, both tallied.
C6_Witness ==
    /\ pc = "summary"
    /\ \E t \in Targets, u \in Targets :
           /\ future[t] = "finished_exception"
           /\ future[u] = "finished_True"
    /\ summary["latency"].fail >= 1
    /\ summary["latency"].success >= 1

\* the values of the present slots of a sample set
Present(ls) == {ls[p][1] : p \in {q \in 1..Len(ls) : ls[q] # None}}

\* C7: a latency_test call of `count` attempts has exactly `count` slots in
\* its sample set when aggregation starts, a failed attempt having appended
\* an absent sample; it returns success = true, with mean, min and max over
\* the present samples only, iff at least one attempt connected, and
\* success = false with the all-failed message and no aggregates iff none
\* connected.
C7_SampleSetAndAggregation ==
    op = "latency_test" =>
        /\ opc \in {"aggregate", "returned"} =>
               /\ Len(latencies) = count
               /\ Present(latencies) = {connected[p] : p \in 1..Len(connected)}
               /\ Cardinality({p \in 1..Len(latencies) : latencies[p] = None})
                      = count - Len(connected)
        /\ opc = "returned" =>
               /\ result.success <=> Len(connected) >= 1
               /\ result.success =>
                      /\ result.avg = Fmt2(SeqSum(connected), Len(connected))
                      /\ result.min = 100 * SeqMin(connected)
                      /\ result.max = 100 * SeqMax(connected)
               /\ ~result.success =>
                      /\ result.msg = "All latency tests failed"
                      /\ DOMAIN result = {"raised", "msg", "success"}

\* C7 witness: a call of at least two attempts has returned success with
\* one attempt connected and another failed.
C7_Witness ==
    /\ op = "latency_test" /\ opc = "returned"
    /\ count >= 2
    /\ Len(connected) >= 1 /\ Len(connected) < count
    /\ result.success

\* C8: a latency_test call that reports success reports
\* min <= mean <= max, all three non-negative.
C8_MeanBetweenMinMaxNonNegative ==
    (op = "latency_test" /\ opc = "returned" /\ result.success) =>
        /\ result.min <= result.avg
        /\ result.avg <= result.max
        /\ result.min >= 0 /\ result.avg >= 0 /\ result.max >= 0

\* C9: the phases run in the order DNS, ping, port, latency, each complete
\* before the next begins: a ping probe has begun only if every DNS probe is
\* tallied, a port probe only if every ping probe is tallied, a latency task
\* is submitted only if every port probe is tallied, and the summary is
\* reached only after every latency task has finished and been tallied.
C9_PhasesInOrder ==
    /\ calls["ping"] > 0 => Total(summary, "dns_resolution") = n + 1
    /\ calls["port_checks"] > 0 => Total(summary, "ping") = n + 1
    /\ calls["latency"] > 0 =>
           /\ Total(summary, "ping") = n + 1
           /\ Total(summary, "port_checks") = Len(ports_to_check) * n
    /\ (pc \in {"dns", "ping", "port"}) =>
           \A t \in 0..MaxDcs : future[t] = "unsubmitted"
    /\ AtSummary =>
           /\ calls["latency"] = n + 1
           /\ \A t \in Targets : future[t] \in Finished
           /\ Total(summary, "latency") = n + 1

\* C9 witness: with auxiliary hosts, the summary is reached after probes of
\* all four phases.
C9_Witness ==
    /\ pc = "summary" /\ n >= 1
    /\ \A c \in Categories : calls[c] > 0

\* C10: when the summary step is reached the counters of a run with n
\* auxiliary hosts add up to n+1 for dns_resolution, n+1 for ping, 5n for
\* port_checks and n+1 for latency, whatever the probe outcomes and the order
\* in which the latency tasks complete; at every moment each category's
\* counters add up to the number of its results obtained so far.
C10_TallyTotals ==
    /\ AtSummary =>
           /\ Total(summary, "dns_resolution") = n + 1
           /\ Total(summary, "ping") = n + 1
           /\ Total(summary, "port_checks") = 5 * n
           /\ Total(summary, "latency") = n + 1
    /\ error = "none" =>
           /\ Total(summary, "dns_resolution") = calls["dns_resolution"]
           /\ Total(summary, "ping") = calls["ping"]
           /\ Total(summary, "port_checks") = calls["port_checks"]
    /\ Total(summary, "latency") = Cardinality(collected)

\* C10 witness: the summary is reached in a run with auxiliary hosts, with
\* port probes and latency tasks of both outcomes tallied.
C10_Witness ==
    /\ pc = "summary" /\ n >= 1
    /\ summary["port_checks"].success >= 1 /\ summary["port_checks"].fail >= 1
    /\ summary["latency"].success >= 1 /\ summary["latency"].fail >= 1

=============================================================================
